---- MODULE Spec2Model ----
(***************************************************************************)
(* CTrack: workflow engine and sprint lifecycle.                           *)
(*                                                                         *)
(* The database rows are the state.  A request is served in two steps, as  *)
(* the HTTP handlers do: the handler first loads the model objects it      *)
(* needs (get_issue_by_key, get_sprint, get_workflow_transition_by_id),    *)
(* and then calls the service method, which runs inside                    *)
(* transaction.atomic and commits or rolls back as one step.  Between the  *)
(* two steps other requests may commit: the service works on the objects   *)
(* the handler loaded, and Model.save() writes every field of the loaded   *)
(* object back to its row.                                                 *)
(***************************************************************************)
EXTENDS Integers, Sequences, FiniteSets, TLC

\* ------------------------------------------------------------------ bounds

\* Workflow requests served in one behaviour.
MaxOps == 2

\* Sprint requests served in one behaviour.
MaxSprintOps == 2

\* Payloads that are not JSON published in one behaviour.
MaxRaw == 1

\* Handler threads that may overlap.
Reqs == {"r1", "r2"}

\* ------------------------------------------------------------- static data

Projects == {"P", "Q"}
Users == {"dev", "mgr", "out"}
Issues == {"i1", "i2", "i3"}
Statuses == {"s1", "s2", "s3"}
Sprints == {"sp1", "sp2", "sp3"}

\* A null reference, and a null number.
None == "None"
Null == -1

\* ProjectRole
Roles == {"admin", "manager", "developer", "viewer"}

\* ProjectMembership rows: the role of a user in a project, None without a row.
RoleOf(p, u) ==
    CASE p = "P" /\ u = "dev" -> "developer"
      [] p = "P" /\ u = "mgr" -> "manager"
      [] p = "Q" /\ u = "mgr" -> "viewer"
      [] OTHER -> None

\* A status that belongs to one project (Status.project is set).
ScopedStatuses == {"sq"}

\* Status.project: the three statuses of `Statuses` are global (null), the
\* fourth is a status of project Q.
StatusProject(s) == IF s = "sq" THEN "Q" ELSE None

\* Status.category
StatusCategory(s) ==
    CASE s = "s1" -> "todo"
      [] s = "s2" -> "in_progress"
      [] s = "s3" -> "done"
      [] s = "sq" -> "in_progress"

\* Status.name
StatusName(s) ==
    CASE s = "s1" -> "To Do"
      [] s = "s2" -> "In Progress"
      [] s = "s3" -> "Done"
      [] s = "sq" -> "Review"

\* Issue.project
IssueProject(i) == IF i = "i3" THEN "Q" ELSE "P"

\* Issue.due_date (nullable): no issue has one yet.
DueDate(i) == Null

\* The due_date values an edit may send: none, or a day.
DueDates == {Null, 1}

\* Issue.story_points (nullable)
StoryPoints(i) ==
    CASE i = "i1" -> 3
      [] i = "i2" -> 5
      [] i = "i3" -> Null

\* Sprint.project
SprintProject(s) == IF s = "sp3" THEN "Q" ELSE "P"

\* WorkflowTransition rows that may exist: (project, from_status, to_status)
\* is unique among them, allowed_roles empty means every role.
TransitionCatalog ==
    [ t1 |-> [project |-> "P", from_status |-> "s1", to_status |-> "s2",
              allowed_roles |-> {}],
      t2 |-> [project |-> "P", from_status |-> "s1", to_status |-> "s3",
              allowed_roles |-> {"developer"}],
      t3 |-> [project |-> "P", from_status |-> "s2", to_status |-> "s1",
              allowed_roles |-> {"manager", "admin"}],
      t4 |-> [project |-> "Q", from_status |-> "s1", to_status |-> "s2",
              allowed_roles |-> {}] ]

TransitionIds == DOMAIN TransitionCatalog

\* The order in which the workflow is configured.
TransitionOrder == <<"t1", "t2", "t3", "t4">>

\* ------------------------------------------------------------------- state

VARIABLES
    issueStatus,    \* Issue.status_id of each issue row
    issueSprint,    \* Issue.sprint_id of each issue row (None: backlog)
    transitions,    \* ids of the WorkflowTransition rows that exist
    activities,     \* IssueActivity rows, in creation order
    events,         \* messages published to the project channels, in order
    sprintRow,      \* Sprint rows: status, story point snapshots, dates
    req,            \* per handler thread: the request being served
    served,         \* number of requests received so far
    gw,             \* the event stream connection (event_generator)
    now,            \* the clock, in poll timeouts
    brokerUp        \* whether the message broker answers

vars == <<issueStatus, issueSprint, transitions, activities, events,
          sprintRow, req, served, gw, now, brokerUp>>

gwVars == <<gw, now, brokerUp>>

issueVars == <<issueStatus, issueSprint>>
logVars == <<activities, events>>

Idle == [kind |-> "none", pc |-> "idle"]

\* A handler thread is busy between loading its objects and the return of
\* its service; a new request goes to the first free thread.
Busy(r) == req[r].pc \in {"loaded", "checked"}

Free(r) ==
    /\ ~Busy(r)
    /\ r = "r1" \/ Busy("r1")

NoneInFlight == \A r \in Reqs : ~Busy(r)

\* No event stream was requested yet.
NoConnection ==
    [pc |-> "idle", user |-> None, project_id |-> None, channels |-> {},
     subscribed |-> {}, pubsub |-> "none", redis |-> "none", start_time |-> 0,
     last_heartbeat |-> 0, current_time |-> 0, message |-> 0, next |-> 0,
     out |-> << >>, exit |-> "none"]


\* --------------------------------------------------------- objects loaded

\* get_issue_by_key: the Issue object a caller holds, a copy of the row.
LoadIssue(i) ==
    [id |-> i, project |-> IssueProject(i), status |-> issueStatus[i],
     sprint |-> issueSprint[i]]

\* Model.save() on an Issue object: every field of the object is written.
SaveIssueStatus(issue) == [issueStatus EXCEPT ![issue.id] = issue.status]
SaveIssueSprint(issue) == [issueSprint EXCEPT ![issue.id] = issue.sprint]

\* ---------------------------------------------------------- activity log

\* IssueActivity.objects.create in ActivityService.log
ActivityRecord(issue, user, action, field_name, old_value, new_value) ==
    [issue |-> issue, user |-> user, action |-> action,
     field_name |-> field_name, old_value |-> old_value,
     new_value |-> new_value]

\* The value log_status_change stores for a status.
StatusValue(s) == [name |-> StatusName(s), category |-> StatusCategory(s)]

\* ActivityService.log_status_change
LogStatusChange(issue, user, old_status, new_status) ==
    ActivityRecord(issue, user, "status_changed", "status",
                   StatusValue(old_status), StatusValue(new_status))

\* publish_event: the message sent to the channel of the project.
Event(type, project, data) == [type |-> type, project |-> project, data |-> data]

\* --------------------------------------------------------- workflow engine

\* WorkflowTransition.objects.filter(project=project)
ProjectTransitions(p) == {t \in transitions : TransitionCatalog[t].project = p}

\* The role check shared by the three workflow operations: allowed_roles
\* empty, or the user's membership role is one of them.
RolePermitted(t, p, u) ==
    \/ TransitionCatalog[t].allowed_roles = {}
    \/ RoleOf(p, u) \in TransitionCatalog[t].allowed_roles

\* Fault: get_available_transitions without the filter on the role.
GetAvailableTransitionsNoRoleFilter(issue, u) ==
    {t \in ProjectTransitions(issue.project) :
        TransitionCatalog[t].from_status = issue.status}

\* IssueService.get_available_transitions
GetAvailableTransitions(issue, u) ==
    {t \in ProjectTransitions(issue.project) :
        /\ TransitionCatalog[t].from_status = issue.status
        /\ RolePermitted(t, issue.project, u)}

\* Fault: can_transition without the fallback for a project that has no
\* workflow transition.
CanTransitionNoFallback(issue, to_status, u) ==
    \E t \in ProjectTransitions(issue.project) :
        /\ TransitionCatalog[t].from_status = issue.status
        /\ TransitionCatalog[t].to_status = to_status
        /\ RolePermitted(t, issue.project, u)

\* IssueService.can_transition
CanTransition(issue, to_status, u) ==
    IF ProjectTransitions(issue.project) = {}
    THEN TRUE
    ELSE LET match == {t \in ProjectTransitions(issue.project) :
                          /\ TransitionCatalog[t].from_status = issue.status
                          /\ TransitionCatalog[t].to_status = to_status}
         IN  /\ match # {}
             /\ \A t \in match : RolePermitted(t, issue.project, u)

\* Fault: execute_transition without the check that the transition belongs
\* to the project of the issue.
ExecuteTransitionNoProjectCheck(issue, t, u) ==
    IF issue.status # TransitionCatalog[t].from_status THEN "InvalidState"
    ELSE IF /\ TransitionCatalog[t].allowed_roles # {}
            /\ RoleOf(issue.project, u) \notin TransitionCatalog[t].allowed_roles
         THEN "Forbidden"
    ELSE "ok"

\* Fault: execute_transition without the role check.
ExecuteTransitionNoRoleCheck(issue, t, u) ==
    IF issue.status # TransitionCatalog[t].from_status THEN "InvalidState"
    ELSE IF issue.project # TransitionCatalog[t].project THEN "InvalidState"
    ELSE "ok"

\* The checks of IssueService.execute_transition, in the order of the code:
\* the error raised, or "ok".  Each error is a ValueError; the name says
\* which check raised it: "InvalidState" the status check and the project
\* check, "Forbidden" the role check.
ExecuteTransitionOutcome(issue, t, u) ==
    IF issue.status # TransitionCatalog[t].from_status THEN "InvalidState"
    ELSE IF issue.project # TransitionCatalog[t].project THEN "InvalidState"
    ELSE IF /\ TransitionCatalog[t].allowed_roles # {}
            /\ RoleOf(issue.project, u) \notin TransitionCatalog[t].allowed_roles
         THEN "Forbidden"
    ELSE "ok"

\* The activity rows IssueService.execute_transition appends on success.
ExecuteTransitionActivities(issue, t, u) == << >>

\* The events IssueService.execute_transition publishes on success.
ExecuteTransitionEvents(issue, t, u) == << >>

\* A caller loads the issue and the transition and is about to call
\* IssueService.execute_transition (api/issues/workflow.py, lines 51-63).
ReceiveExecuteTransition(r, i, t, u) ==
    /\ Free(r)
    /\ served < MaxOps
    /\ t \in transitions
    /\ req' = [req EXCEPT ![r] =
                 [kind |-> "transition", pc |-> "loaded", issue |-> LoadIssue(i),
                  transition |-> t, user |-> u]]
    /\ served' = served + 1
    /\ UNCHANGED <<issueVars, transitions, logVars, sprintRow>>
    /\ UNCHANGED gwVars

\* IssueService.execute_transition on the loaded objects.
ExecuteTransition(r) ==
    /\ req[r].pc = "loaded"
    /\ req[r].kind = "transition"
    /\ LET q == req[r]
           t == q.transition
           out == ExecuteTransitionOutcome(q.issue, t, q.user)
           moved == [q.issue EXCEPT !.status = TransitionCatalog[t].to_status]
       IN  /\ IF out = "ok"
              THEN /\ issueStatus' = SaveIssueStatus(moved)
                   /\ issueSprint' = SaveIssueSprint(moved)
                   /\ activities' = activities \o
                          ExecuteTransitionActivities(q.issue, t, q.user)
                   /\ events' = events \o
                          ExecuteTransitionEvents(q.issue, t, q.user)
              ELSE UNCHANGED <<issueVars, logVars>>
           /\ req' = [req EXCEPT ![r] =
                 [kind |-> "transition", pc |-> "done", issue |-> q.issue,
                  transition |-> t, user |-> q.user, res |-> out,
                  rowStatus |-> issueStatus[q.issue.id],
                  rowAfter |-> issueStatus'[q.issue.id],
                  othersChanged |-> \E j \in Issues \ {q.issue.id} :
                                       issueStatus'[j] # issueStatus[j],
                  logged |-> Len(activities') - Len(activities)]]
    /\ UNCHANGED <<transitions, sprintRow, served>>
    /\ UNCHANGED gwVars

\* The activity rows IssueService.update_issue appends for a status edit
\* made by `u`: one status_changed row when the status differs from the one
\* the loaded object had.
UpdateIssueActivities(issue, status_id, u) ==
    IF issue.status # status_id
    THEN << LogStatusChange(issue.id, u, issue.status, status_id) >>
    ELSE << >>

\* The events of IssueService.update_issue: activity.created from
\* ActivityService.log, then issue.moved or issue.updated.
UpdateIssueEvents(issue, status_id, u) ==
    IF issue.status # status_id
    THEN << Event("activity.created", issue.project,
                  [action |-> "status_changed", issue |-> issue.id]),
            Event("issue.moved", issue.project,
                  [key |-> issue.id, from_status |-> StatusName(issue.status),
                   to_status |-> StatusName(status_id)]) >>
    ELSE << Event("issue.updated", issue.project, [key |-> issue.id]) >>

\* update_issue logs a due date that differs from the one the loaded object
\* had with log_due_date_change, which reads ActivityAction.DUE_DATE_CHANGED:
\* ActivityAction has no such member, the read raises AttributeError.
UpdateIssueRaises(issue, due_date) ==
    due_date # Null /\ due_date # DueDate(issue.id)

\* The events update_issue has published when log_due_date_change raises:
\* the activity.created of the status change, logged before the due date.
EventsBeforeDueDate(issue, status_id, u) ==
    IF issue.status # status_id
    THEN << UpdateIssueEvents(issue, status_id, u)[1] >>
    ELSE << >>

\* A caller loads the issue and wants to set status_id and, unless it is
\* Null, due_date; as in the update handler (api/issues/issues.py, lines
\* 294-309) can_transition decides whether the service is called at all.
ReceiveUpdateIssue(r, i, status_id, due_date, u) ==
    /\ Free(r)
    /\ served < MaxOps
    /\ LET issue == LoadIssue(i)
           allowed == \/ status_id = issue.status
                      \/ CanTransition(issue, status_id, u)
       IN  req' = [req EXCEPT ![r] =
                 IF allowed
                 THEN [kind |-> "update_issue", pc |-> "loaded", issue |-> issue,
                       status_id |-> status_id, due_date |-> due_date,
                       user |-> u]
                 ELSE [kind |-> "update_issue", pc |-> "done", issue |-> issue,
                       status_id |-> status_id, due_date |-> due_date,
                       user |-> u, res |-> "TransitionDenied",
                       rowStatus |-> issue.status, rowAfter |-> issue.status,
                       othersChanged |-> FALSE, logged |-> 0, published |-> 0]]
    /\ served' = served + 1
    /\ UNCHANGED <<issueVars, transitions, logVars, sprintRow>>
    /\ UNCHANGED gwVars

\* IssueService.update_issue(issue, user, status_id=..., due_date=...).
\* The service runs in transaction.atomic: when it raises, the row saved
\* and the activity rows created are rolled back; what was published to
\* the broker is not.
UpdateIssue(r) ==
    /\ req[r].pc = "loaded"
    /\ req[r].kind = "update_issue"
    /\ LET q == req[r]
           edited == [q.issue EXCEPT !.status = q.status_id]
           raises == UpdateIssueRaises(q.issue, q.due_date)
       IN  /\ IF raises
              THEN /\ UNCHANGED <<issueVars, activities>>
                   /\ events' = events \o
                          EventsBeforeDueDate(q.issue, q.status_id, q.user)
              ELSE /\ issueStatus' = SaveIssueStatus(edited)
                   /\ issueSprint' = SaveIssueSprint(edited)
                   /\ activities' = activities \o
                          UpdateIssueActivities(q.issue, q.status_id, q.user)
                   /\ events' = events \o
                          UpdateIssueEvents(q.issue, q.status_id, q.user)
           /\ req' = [req EXCEPT ![r] =
                 [kind |-> "update_issue", pc |-> "done", issue |-> q.issue,
                  status_id |-> q.status_id, due_date |-> q.due_date,
                  user |-> q.user,
                  res |-> IF raises THEN "AttributeError" ELSE "ok",
                  rowStatus |-> issueStatus[q.issue.id],
                  rowAfter |-> issueStatus'[q.issue.id],
                  othersChanged |-> \E j \in Issues \ {q.issue.id} :
                                       issueStatus'[j] # issueStatus[j],
                  logged |-> Len(activities') - Len(activities),
                  published |-> Len(events') - Len(events)]]
    /\ UNCHANGED <<transitions, sprintRow, served>>
    /\ UNCHANGED gwVars

\* IssueService.create_workflow_transition
CreateWorkflowTransition(t) ==
    /\ t \notin transitions
    /\ t = TransitionOrder[Cardinality(transitions) + 1]
    /\ transitions' = transitions \cup {t}
    /\ UNCHANGED <<issueVars, logVars, sprintRow, req, served>>
    /\ UNCHANGED gwVars


\* -------------------------------------------------------- sprint lifecycle

\* Days a sprint may start or end on.
Dates == {1, 2, 3}

\* The (start_date, end_date) pairs sent to update_sprint: a later end, a
\* later start.
UpdateDates == {<<Null, 3>>, <<2, Null>>}

\* A Sprint row that does not exist (not created yet).
Absent == [status |-> "absent", initial_story_points |-> Null,
           completed_story_points |-> Null, start_date |-> Null,
           end_date |-> Null]

\* SprintService.get_sprint: the Sprint object a caller holds, a copy of the row.
LoadSprint(s) ==
    [id |-> s, project |-> SprintProject(s), status |-> sprintRow[s].status,
     initial_story_points |-> sprintRow[s].initial_story_points,
     completed_story_points |-> sprintRow[s].completed_story_points,
     start_date |-> sprintRow[s].start_date, end_date |-> sprintRow[s].end_date]

\* Model.save() on a Sprint object: every field of the object is written.
SaveSprint(rows, sprint) ==
    [rows EXCEPT ![sprint.id] =
        [status |-> sprint.status,
         initial_story_points |-> sprint.initial_story_points,
         completed_story_points |-> sprint.completed_story_points,
         start_date |-> sprint.start_date, end_date |-> sprint.end_date]]

\* SprintService._validate_dates
ValidDates(start_date, end_date) == start_date < end_date

\* Sum("story_points") over a set of issues: null points are skipped, and
\* `or 0` turns the null of an empty sum into 0.
RECURSIVE SumPoints(_)
SumPoints(S) ==
    IF S = {} THEN 0
    ELSE LET i == CHOOSE x \in S : TRUE
         IN  (IF StoryPoints(i) = Null THEN 0 ELSE StoryPoints(i))
             + SumPoints(S \ {i})

\* sprint.issues
SprintIssues(s) == {i \in Issues : issueSprint[i] = s}

\* Fault: the snapshot taken over every issue of the sprint's project.
CalculateStoryPointsOfProject(s) ==
    SumPoints({i \in Issues : IssueProject(i) = SprintProject(s)})

\* SprintService._calculate_story_points
CalculateStoryPoints(s) == SumPoints(SprintIssues(s))

\* Fault: the completed snapshot taken without the filter on the category.
CalculateCompletedIgnoringCategory(s) == SumPoints(SprintIssues(s))

\* SprintService._calculate_completed_story_points
CalculateCompletedStoryPoints(s) ==
    SumPoints({i \in SprintIssues(s) : StatusCategory(issueStatus[i]) = "done"})

\* sprint.issues.exclude(status__category=DONE)
IncompleteIssues(s) ==
    {i \in SprintIssues(s) : StatusCategory(issueStatus[i]) # "done"}

\* SprintService._check_overlapping_active_sprint: an active Sprint row of
\* the project exists.
OverlappingActiveSprint(p) ==
    \E s \in Sprints : SprintProject(s) = p /\ sprintRow[s].status = "active"

\* SprintService.create_sprint
CreateSprint(s, start_date, end_date) ==
    /\ served < MaxSprintOps
    /\ sprintRow[s].status = "absent"
    /\ ValidDates(start_date, end_date)
    /\ sprintRow' = [sprintRow EXCEPT ![s] =
          [status |-> "planned", initial_story_points |-> Null,
           completed_story_points |-> Null, start_date |-> start_date,
           end_date |-> end_date]]
    /\ served' = served + 1
    /\ UNCHANGED <<issueVars, transitions, logVars, req>>
    /\ UNCHANGED gwVars

\* A caller loads the sprint before calling a service (api/sprints.py).
ReceiveSprintRequest(r, kind, s, arg) ==
    /\ Free(r)
    /\ served < MaxSprintOps
    /\ sprintRow[s].status # "absent"
    /\ req' = [req EXCEPT ![r] =
          [kind |-> kind, pc |-> "loaded", sprint |-> LoadSprint(s), arg |-> arg]]
    /\ served' = served + 1
    /\ UNCHANGED <<issueVars, transitions, logVars, sprintRow>>
    /\ UNCHANGED gwVars

\* What a finished sprint request leaves in its slot: the result, the rows
\* as they were when the service ran, and the rows as it left them.
SprintDone(q, res) ==
    [kind |-> q.kind, pc |-> "done", sprint |-> q.sprint, arg |-> q.arg,
     res |-> res, rows |-> sprintRow, members |-> issueSprint,
     statuses |-> issueStatus, rowsAfter |-> sprintRow',
     membersAfter |-> issueSprint']

\* Fault: update_issue_sprint checking the project before the status, and
\* not refusing a completed sprint of the issue's project.
UpdateIssueSprintNoCompletedCheck(issue, sprint_id) ==
    IF sprint_id = None THEN "ok"
    ELSE IF sprintRow[sprint_id].status = "absent" THEN "NotFound"
    ELSE IF SprintProject(sprint_id) # issue.project THEN "Conflict"
    ELSE "ok"

\* Fault: start_sprint without the check that the sprint is planned.
StartSprintNoStatusCheck(sprint) ==
    IF OverlappingActiveSprint(sprint.project) THEN "Conflict" ELSE "ok"

\* Fault: start_sprint without the check for an active sprint.
StartSprintNoOverlapCheck(sprint) ==
    IF sprint.status # "planned" THEN "InvalidState" ELSE "ok"

\* The checks of SprintService.start_sprint: the error raised, or "ok".
\* Each error is a SprintServiceError; "InvalidState" is the one of the
\* status check, "Conflict" the one of _check_overlapping_active_sprint.
StartSprintOutcome(sprint) ==
    IF sprint.status # "planned" THEN "InvalidState"
    ELSE IF OverlappingActiveSprint(sprint.project) THEN "Conflict"
    ELSE "ok"

ReceiveStartSprint(r, s) == ReceiveSprintRequest(r, "start", s, None)

\* SprintService.start_sprint up to its query for an active sprint: the
\* status of the loaded object is checked, then the rows are queried.  The
\* transaction takes no lock and runs at the database's default isolation
\* (read committed), so other transactions may commit between this query
\* and the save.
StartSprintCheck(r) ==
    /\ req[r].pc = "loaded"
    /\ req[r].kind = "start"
    /\ LET q == req[r]
           out == StartSprintOutcome(q.sprint)
       IN  /\ UNCHANGED <<issueVars, sprintRow>>
           /\ req' = [req EXCEPT ![r] =
                      IF out = "ok"
                      THEN [kind |-> "start", pc |-> "checked",
                            sprint |-> q.sprint, arg |-> q.arg,
                            rows |-> sprintRow]
                      ELSE SprintDone(q, out)]
    /\ UNCHANGED <<transitions, logVars, served>>
    /\ UNCHANGED gwVars

\* SprintService.start_sprint after its checks: the snapshot of the story
\* points, the new status, sprint.save() and the commit.  The slot keeps
\* the rows the query for an active sprint saw.
StartSprint(r) ==
    /\ req[r].pc = "checked"
    /\ req[r].kind = "start"
    /\ LET q == req[r]
           started == [q.sprint EXCEPT
                          !.initial_story_points = CalculateStoryPoints(q.sprint.id),
                          !.status = "active"]
       IN  /\ sprintRow' = SaveSprint(sprintRow, started)
           /\ UNCHANGED issueVars
           /\ req' = [req EXCEPT ![r] =
                         [SprintDone(q, "ok") EXCEPT !.rows = q.rows]]
    /\ UNCHANGED <<transitions, logVars, served>>
    /\ UNCHANGED gwVars


\* The checks of SprintService.complete_sprint, the error raised or "ok":
\* "InvalidState" is the SprintServiceError of the status check, "Conflict"
\* the one of the target check, "NotFound" the Sprint.DoesNotExist of
\* Sprint.objects.get.
\* `saved` are the Sprint rows after sprint.save(): the target sprint is
\* read after the save, inside the same transaction.
CompleteSprintOutcome(sprint, move_incomplete_to, saved) ==
    IF sprint.status # "active" THEN "InvalidState"
    ELSE IF move_incomplete_to \in {"backlog", None} THEN "ok"
    ELSE IF saved[move_incomplete_to].status = "absent" THEN "NotFound"
    ELSE IF saved[move_incomplete_to].status = "completed" THEN "Conflict"
    ELSE "ok"

\* Fault: complete_sprint outside a transaction, so that the save made
\* before the target check stays when the check raises.
CompleteSprintNoRollback(out, saved) ==
    IF out = "InvalidState" THEN sprintRow ELSE saved

\* transaction.atomic around complete_sprint: the rows written are kept
\* when the service returns and rolled back when it raises.
CompleteSprintCommit(out, saved) == IF out = "ok" THEN saved ELSE sprintRow

\* Fault: complete_sprint moving every issue of the sprint, done or not.
MoveEveryIssue(s, move_incomplete_to) ==
    [i \in Issues |->
        IF i \in SprintIssues(s)
        THEN (IF move_incomplete_to \in {"backlog", None} THEN None
              ELSE move_incomplete_to)
        ELSE issueSprint[i]]

\* incomplete_issues.update(sprint=...): where complete_sprint leaves the
\* issues' sprint references.
MoveIncomplete(s, move_incomplete_to) ==
    [i \in Issues |->
        IF i \in IncompleteIssues(s)
        THEN (IF move_incomplete_to \in {"backlog", None} THEN None
              ELSE move_incomplete_to)
        ELSE issueSprint[i]]

ReceiveCompleteSprint(r, s, move_incomplete_to) ==
    ReceiveSprintRequest(r, "complete", s, move_incomplete_to)

\* SprintService.complete_sprint
CompleteSprint(r) ==
    /\ req[r].pc = "loaded"
    /\ req[r].kind = "complete"
    /\ LET q == req[r]
           completed == [q.sprint EXCEPT
               !.completed_story_points = CalculateCompletedStoryPoints(q.sprint.id),
               !.status = "completed"]
           saved == SaveSprint(sprintRow, completed)
           out == CompleteSprintOutcome(q.sprint, q.arg, saved)
       IN  /\ sprintRow' = CompleteSprintCommit(out, saved)
           /\ issueSprint' = IF out = "ok" THEN MoveIncomplete(q.sprint.id, q.arg)
                             ELSE issueSprint
           /\ UNCHANGED issueStatus
           /\ req' = [req EXCEPT ![r] = SprintDone(q, out)]
    /\ UNCHANGED <<transitions, logVars, served>>
    /\ UNCHANGED gwVars

\* The Sprint object after update_sprint applied the dates given (Null: keep).
WithDates(sprint, start_date, end_date) ==
    [sprint EXCEPT
        !.start_date = IF start_date = Null THEN @ ELSE start_date,
        !.end_date = IF end_date = Null THEN @ ELSE end_date]

ReceiveUpdateSprint(r, s, start_date, end_date) ==
    ReceiveSprintRequest(r, "update", s,
                         [start_date |-> start_date, end_date |-> end_date])

\* SprintService.update_sprint
UpdateSprint(r) ==
    /\ req[r].pc = "loaded"
    /\ req[r].kind = "update"
    /\ LET q == req[r]
           edited == WithDates(q.sprint, q.arg.start_date, q.arg.end_date)
           valid == ValidDates(edited.start_date, edited.end_date)
       IN  /\ sprintRow' = IF valid THEN SaveSprint(sprintRow, edited)
                           ELSE sprintRow
           /\ UNCHANGED issueVars
           /\ req' = [req EXCEPT ![r] =
                         SprintDone(q, IF valid THEN "ok" ELSE "InvalidDates")]
    /\ UNCHANGED <<transitions, logVars, served>>
    /\ UNCHANGED gwVars

\* The checks of IssueService.update_issue_sprint: the error raised, or "ok"
\* ("NotFound": Sprint.DoesNotExist; "InvalidState": the ValueError for a
\* completed sprint; "Conflict": the ValueError for a sprint of another
\* project).
UpdateIssueSprintOutcome(issue, sprint_id) ==
    IF sprint_id = None THEN "ok"
    ELSE IF sprintRow[sprint_id].status = "absent" THEN "NotFound"
    ELSE IF sprintRow[sprint_id].status = "completed" THEN "InvalidState"
    ELSE IF SprintProject(sprint_id) # issue.project THEN "Conflict"
    ELSE "ok"

\* A caller loads the issue before calling update_issue_sprint
\* (api/issues/backlog.py, line 66).
ReceiveUpdateIssueSprint(r, i, sprint_id) ==
    /\ Free(r)
    /\ served < MaxSprintOps
    /\ req' = [req EXCEPT ![r] =
          [kind |-> "set_sprint", pc |-> "loaded", issue |-> LoadIssue(i),
           arg |-> sprint_id]]
    /\ served' = served + 1
    /\ UNCHANGED <<issueVars, transitions, logVars, sprintRow>>
    /\ UNCHANGED gwVars

\* IssueService.update_issue_sprint
UpdateIssueSprint(r) ==
    /\ req[r].pc = "loaded"
    /\ req[r].kind = "set_sprint"
    /\ LET q == req[r]
           out == UpdateIssueSprintOutcome(q.issue, q.arg)
           moved == [q.issue EXCEPT !.sprint = q.arg]
       IN  /\ IF out = "ok"
              THEN /\ issueStatus' = SaveIssueStatus(moved)
                   /\ issueSprint' = SaveIssueSprint(moved)
              ELSE UNCHANGED issueVars
           /\ UNCHANGED sprintRow
           /\ req' = [req EXCEPT ![r] =
                 [kind |-> "set_sprint", pc |-> "done", issue |-> q.issue,
                  arg |-> q.arg, res |-> out, rows |-> sprintRow,
                  members |-> issueSprint, statuses |-> issueStatus,
                  rowsAfter |-> sprintRow', membersAfter |-> issueSprint']]
    /\ UNCHANGED <<transitions, logVars, served>>
    /\ UNCHANGED gwVars

\* The checks of SprintService.add_issue_to_sprint, the error raised or
\* "ok": "InvalidState" is the SprintServiceError for a completed sprint,
\* read from the Sprint object the caller passes; "IntegrityError" is what
\* issue.save() raises when the row of that sprint is gone.  The project
\* of the sprint is not looked at.
AddIssueToSprintOutcome(sprint) ==
    IF sprint.status = "completed" THEN "InvalidState"
    ELSE IF sprintRow[sprint.id].status = "absent" THEN "IntegrityError"
    ELSE "ok"

\* A caller loads the issue and the sprint before calling
\* add_issue_to_sprint, which takes both as objects.
ReceiveAddIssueToSprint(r, i, s) ==
    /\ Free(r)
    /\ served < MaxSprintOps
    /\ sprintRow[s].status # "absent"
    /\ req' = [req EXCEPT ![r] =
          [kind |-> "add_issue", pc |-> "loaded", issue |-> LoadIssue(i),
           sprint |-> LoadSprint(s), arg |-> None]]
    /\ served' = served + 1
    /\ UNCHANGED <<issueVars, transitions, logVars, sprintRow>>
    /\ UNCHANGED gwVars

\* SprintService.add_issue_to_sprint
AddIssueToSprint(r) ==
    /\ req[r].pc = "loaded"
    /\ req[r].kind = "add_issue"
    /\ LET q == req[r]
           out == AddIssueToSprintOutcome(q.sprint)
           moved == [q.issue EXCEPT !.sprint = q.sprint.id]
       IN  /\ IF out = "ok"
              THEN /\ issueStatus' = SaveIssueStatus(moved)
                   /\ issueSprint' = SaveIssueSprint(moved)
              ELSE UNCHANGED issueVars
           /\ UNCHANGED sprintRow
           /\ req' = [req EXCEPT ![r] =
                 [kind |-> "add_issue", pc |-> "done", issue |-> q.issue,
                  sprint |-> q.sprint, arg |-> q.arg, res |-> out,
                  rows |-> sprintRow, members |-> issueSprint,
                  statuses |-> issueStatus, rowsAfter |-> sprintRow',
                  membersAfter |-> issueSprint']]
    /\ UNCHANGED <<transitions, logVars, served>>
    /\ UNCHANGED gwVars

ReceiveDeleteSprint(r, s) == ReceiveSprintRequest(r, "delete", s, None)

\* SprintService.delete_sprint: the issues of the sprint go to the backlog,
\* the row is deleted.
DeleteSprint(r) ==
    /\ req[r].pc = "loaded"
    /\ req[r].kind = "delete"
    /\ LET q == req[r]
       IN  /\ issueSprint' = [i \in Issues |->
                                 IF issueSprint[i] = q.sprint.id THEN None
                                 ELSE issueSprint[i]]
           /\ sprintRow' = [sprintRow EXCEPT ![q.sprint.id] = Absent]
           /\ UNCHANGED issueStatus
           /\ req' = [req EXCEPT ![r] = SprintDone(q, "ok")]
    /\ UNCHANGED <<transitions, logVars, served>>
    /\ UNCHANGED gwVars

\* ----------------------------------------------------------------- metrics

\* round(n / d, 1) for n >= 0 and d > 0, in tenths: the nearest tenth, the
\* even one of two that are equally near.
RoundTenths(n, d) ==
    LET q == (10 * n) \div d
        r == (10 * n) % d
    IN  IF 2 * r > d THEN q + 1
        ELSE IF 2 * r < d THEN q
        ELSE IF q % 2 = 0 THEN q ELSE q + 1

\* `x or 0`
OrZero(x) == IF x = Null THEN 0 ELSE x

\* Sprint.objects.filter(project=project, status=COMPLETED)
CompletedSprints(p) ==
    {s \in DOMAIN sprintRow :
        SprintProject(s) = p /\ sprintRow[s].status = "completed"}

\* order_by("-end_date"): the orders the database may return the sprints
\* of S in, the latest end date first; sprints that end on the same day
\* come in any order.
RECURSIVE NewestFirst(_)
NewestFirst(S) ==
    IF S = {} THEN {<< >>}
    ELSE UNION {{<<s>> \o rest : rest \in NewestFirst(S \ {s})} :
                  s \in {x \in S : \A y \in S :
                             sprintRow[y].end_date <= sprintRow[x].end_date}}

\* queryset[:limit]
Take(seq, limit) == SubSeq(seq, 1, IF limit < Len(seq) THEN limit ELSE Len(seq))

\* list.reverse()
Reverse(seq) == [k \in 1 .. Len(seq) |-> seq[Len(seq) + 1 - k]]

\* The entry get_velocity makes for a sprint.
VelocityEntry(s) ==
    [id |-> s, end_date |-> sprintRow[s].end_date,
     committed_story_points |-> OrZero(sprintRow[s].initial_story_points),
     completed_story_points |-> OrZero(sprintRow[s].completed_story_points)]

\* total_velocity: the sum of the completed story points of the entries.
RECURSIVE TotalVelocity(_)
TotalVelocity(entries) ==
    IF entries = << >> THEN 0
    ELSE Head(entries).completed_story_points + TotalVelocity(Tail(entries))

\* Fault: get_velocity without the reverse, the latest sprint first.
GetVelocityNewestFirst(completed_sprints, limit) ==
    LET taken == Take(completed_sprints, limit)
        sprint_data == [k \in 1 .. Len(taken) |-> VelocityEntry(taken[k])]
        count == Len(sprint_data)
    IN  [sprints |-> sprint_data,
         average_velocity |-> IF count > 0
                              THEN RoundTenths(TotalVelocity(sprint_data), count)
                              ELSE 0,
         total_sprints |-> count]

\* What SprintService.get_velocity returns for the completed sprints as
\* the database ordered them; average_velocity is in tenths.
GetVelocityResult(completed_sprints, limit) ==
    LET taken == Take(completed_sprints, limit)
        sprint_data == Reverse([k \in 1 .. Len(taken) |-> VelocityEntry(taken[k])])
        count == Len(sprint_data)
    IN  [sprints |-> sprint_data,
         average_velocity |-> IF count > 0
                              THEN RoundTenths(TotalVelocity(sprint_data), count)
                              ELSE 0,
         total_sprints |-> count]

\* The velocity of project p is requested (api/sprints.py, lines 243-255).
GetVelocity(r, p, limit) ==
    /\ Free(r)
    /\ served < MaxSprintOps
    /\ \E completed_sprints \in NewestFirst(CompletedSprints(p)) :
          req' = [req EXCEPT ![r] =
                    [kind |-> "velocity", pc |-> "done", project |-> p,
                     limit |-> limit, res |-> "ok",
                     out |-> GetVelocityResult(completed_sprints, limit)]]
    /\ served' = served + 1
    /\ UNCHANGED <<issueVars, transitions, logVars, sprintRow>>
    /\ UNCHANGED gwVars

\* What the lookup of the first historical record with a done status
\* gives when there is no such record (Null), and when the lookup raises.
Unavailable == -2

\* The day the code takes as the one issue i was done on, Null when it
\* takes none: the day of the first historical record with a done
\* status; when the lookup raised, the day of updated_at of an issue that
\* is done now.
BurndownDoneDate(i, done_date, updated_at) ==
    IF done_date[i] = Unavailable
    THEN (IF StatusCategory(issueStatus[i]) = "done" THEN updated_at[i] ELSE Null)
    ELSE done_date[i]

\* What SprintService.get_burndown returns; the values of the ideal line
\* are in tenths, the values of the actual line in points.
\*   today:      timezone.now().date()
\*   done_date:  per issue, the day of its first historical record with a
\*               done status, Null or Unavailable
\*   updated_at: per issue, the day of Issue.updated_at
GetBurndownResult(sprint, today, done_date, updated_at) ==
    LET start == sprint.start_date
        end == sprint.end_date
        chart_end == IF sprint.status = "active" /\ today < end THEN today
                     ELSE end
        total_days == end - start + 1
        elapsed_days == chart_end - start + 1
        initial_sp == IF sprint.initial_story_points # Null
                      THEN sprint.initial_story_points
                      ELSE CalculateStoryPoints(sprint.id)
        counted == {i \in SprintIssues(sprint.id) :
                      /\ StoryPoints(i) \notin {Null, 0}
                      /\ BurndownDoneDate(i, done_date, updated_at) # Null
                      /\ start <= BurndownDoneDate(i, done_date, updated_at)
                      /\ BurndownDoneDate(i, done_date, updated_at) <= chart_end}
        remaining(day) ==
            initial_sp - SumPoints({i \in counted :
                            BurndownDoneDate(i, done_date, updated_at) <= day})
    IN  [initial_story_points |-> initial_sp,
         ideal |-> [k \in 1 .. total_days + 1 |->
                      [date |-> start + (k - 1),
                       value |-> RoundTenths(initial_sp * (total_days - (k - 1)),
                                             total_days)]],
         actual |-> [k \in 1 .. elapsed_days |->
                       [date |-> start + (k - 1),
                        value |-> IF remaining(start + (k - 1)) > 0
                                  THEN remaining(start + (k - 1)) ELSE 0]]]

\* The burndown of sprint s is requested (api/sprints.py, lines 258-275):
\* the handler loads the sprint and calls get_burndown.  The history
\* table and updated_at are not part of the state; what the query reads
\* from them is given with the request.
GetBurndown(r, s, today, done_date, updated_at) ==
    /\ Free(r)
    /\ served < MaxSprintOps
    /\ sprintRow[s].status # "absent"
    /\ req' = [req EXCEPT ![r] =
          [kind |-> "burndown", pc |-> "done", sprint |-> LoadSprint(s),
           today |-> today, done_date |-> done_date, updated_at |-> updated_at,
           res |-> "ok",
           out |-> GetBurndownResult(LoadSprint(s), today, done_date,
                                     updated_at)]]
    /\ served' = served + 1
    /\ UNCHANGED <<issueVars, transitions, logVars, sprintRow>>
    /\ UNCHANGED gwVars

\* ------------------------------------------------------ live-update gateway

\* The time one get_message may wait (timeout=1.0), the unit of the clock.
PollTimeout == 1

\* Seconds between heartbeats, in poll timeouts (30 in the code).
HeartbeatInterval == 2

\* max_connection_time, in poll timeouts (3600 in the code).
MaxConnectionTime == 7

\* get_user_project_ids: the projects the user has a membership in.
UserProjectIds(u) == {p \in Projects : RoleOf(p, u) # None}

\* Fault: the channel of the requested project without the access check.
ChannelsNoAccessCheck(u, project_id) ==
    IF project_id # None THEN {project_id} ELSE UserProjectIds(u)

\* The channel list event_generator builds (the projects of the channels);
\* empty when the requested project is not one of the user's.
Channels(u, project_id) ==
    IF project_id # None
    THEN (IF project_id \in UserProjectIds(u) THEN {project_id} ELSE {})
    ELSE UserProjectIds(u)

\* format_sse of a message the gateway makes itself.  `seq` is 0 for these.
SseMessage(type, message) ==
    [type |-> type, project |-> None, message |-> message, seq |-> 0]

\* format_sse(json.loads(message["data"])): a published event, relayed.
\* `seq` is the place of the message in the order of the broker, which
\* tells two messages apart as the timestamp in the payload does.
SseEvent(event, seq) ==
    [type |-> event.type, project |-> event.project, message |-> "",
     seq |-> seq]

\* A payload that is not JSON, published on the channel of project p by
\* another client of the broker.
RawMessage(p) == [type |-> "raw", project |-> p, data |-> "not json"]

\* json.loads(message["data"]) returns: every payload publish_event made
\* is the output of json.dumps.
ValidJson(message) == message.type # "raw"

\* yield: the message goes to the client.
Emit(g, sse) == [g EXCEPT !.out = Append(@, sse)]

\* Fault: get_message returning messages it returned before.
NextMessageAgain(g) ==
    LET waiting == {k \in 1 .. Len(events) : events[k].project \in g.subscribed}
    IN  IF waiting = {} THEN 0
        ELSE CHOOSE k \in waiting : \A j \in waiting : k <= j

\* pubsub.get_message on a working broker: the index in `events` of the
\* next event published on a subscribed channel since the last one read,
\* 0 when there is none (the message is None).
NextMessage(g) ==
    LET waiting == {k \in g.next .. Len(events) : events[k].project \in g.subscribed}
    IN  IF waiting = {} THEN 0
        ELSE CHOOSE k \in waiting : \A j \in waiting : k <= j

\* Fault: the connection never expires.
NeverTimedOut(g) == FALSE

\* time.time() - start_time > max_connection_time
TimedOut(g) == now - g.start_time > MaxConnectionTime

\* Fault: a heartbeat only after twice the interval.
HeartbeatLate(g) == g.current_time - g.last_heartbeat > 2 * HeartbeatInterval

\* current_time - last_heartbeat > 30
HeartbeatDue(g) == g.current_time - g.last_heartbeat > HeartbeatInterval

\* The finally block: unsubscribe, pubsub.close, r.close.  With the broker
\* gone unsubscribe may raise, and then neither handle is closed.
FinallyBlock(g) ==
    LET released == [g EXCEPT !.subscribed = {}, !.pubsub = "closed",
                              !.redis = "closed"]
    IN  IF brokerUp THEN {released} ELSE {released, g}

\* The generator is finished: returned, closed or raised.
Ended(g, exit) == [g EXCEPT !.pc = "closed", !.exit = exit]

\* Back at the top of the loop; the values of message and current_time are
\* not read again before they are assigned.
LoopTop(g) == [g EXCEPT !.pc = "loop", !.message = 0, !.current_time = 0]

\* Lines 123-134: no message, sleep; a message, relay it; a message that
\* json.loads rejects, continue with the next pass of the loop.
HandleMessage(g) ==
    IF g.message = 0
    THEN [g EXCEPT !.pc = "sleep"]
    ELSE IF ~ValidJson(events[g.message])
    THEN LoopTop(g)
    ELSE [Emit(g, SseEvent(events[g.message], g.message)) EXCEPT !.pc = "data"]

\* Lines 118-121 up to the yield of the heartbeat, then lines 123-134.
AfterPoll(g) ==
    IF HeartbeatDue(g)
    THEN [Emit(g, SseMessage("heartbeat", "")) EXCEPT !.pc = "heartbeat"]
    ELSE HandleMessage(g)

\* event_stream is requested by user u, for project_id or for every project
\* of the user: lines 54-82 up to the first suspension.
Connect(u, project_id) ==
    /\ gw.pc = "idle"
    /\ LET g == [gw EXCEPT !.user = u, !.project_id = project_id,
                           !.channels = Channels(u, project_id),
                           !.pubsub = "open", !.redis = "open"]
       IN  gw' = IF project_id # None /\ g.channels = {}
                 THEN [Emit(g, SseMessage("error", "Access denied to project"))
                          EXCEPT !.pc = "denied"]
                 ELSE IF g.channels = {}
                 THEN [Emit(g, SseMessage("error", "No projects available"))
                          EXCEPT !.pc = "denied"]
                 ELSE [g EXCEPT !.pc = "subscribing"]
    /\ UNCHANGED <<issueVars, transitions, logVars, sprintRow, req, served,
                   now, brokerUp>>

\* await pubsub.subscribe(*channels) and the yield of the connected
\* message (lines 85-94); a broker that does not answer makes subscribe
\* raise, outside of any try.
Subscribe ==
    /\ gw.pc = "subscribing"
    /\ gw' = IF brokerUp
             THEN [Emit([gw EXCEPT !.subscribed = gw.channels,
                                   !.next = Len(events) + 1],
                        SseMessage("connected", ""))
                      EXCEPT !.pc = "connected"]
             ELSE Ended(gw, "ConnectionError")
    /\ UNCHANGED <<issueVars, transitions, logVars, sprintRow, req, served,
                   now, brokerUp>>

\* The client takes the message yielded and the generator runs on to its
\* next suspension.
Resume ==
    /\ gw.pc \in {"denied", "connected", "heartbeat", "data", "timeout"}
    /\ \E g \in (CASE gw.pc = "denied" ->
                       {Ended([gw EXCEPT !.pubsub = "closed", !.redis = "closed"],
                              "return")}
                   [] gw.pc = "connected" ->
                       {LoopTop([gw EXCEPT !.last_heartbeat = now,
                                           !.start_time = now])}
                   [] gw.pc = "heartbeat" ->
                       {HandleMessage([gw EXCEPT !.last_heartbeat = gw.current_time])}
                   [] gw.pc = "data" -> {LoopTop(gw)}
                   [] gw.pc = "timeout" ->
                       {Ended(c, "return") : c \in FinallyBlock(gw)}) :
          gw' = g
    /\ UNCHANGED <<issueVars, transitions, logVars, sprintRow, req, served,
                   now, brokerUp>>

\* One pass from the top of the loop to the next suspension (lines
\* 101-131): the lifetime check, get_message waiting at most PollTimeout,
\* the heartbeat check, the message.  get_message raises when the broker
\* does not answer; the except clause does not catch that, the finally
\* block runs and the error leaves the generator.
Poll ==
    /\ gw.pc = "loop"
    /\ IF TimedOut(gw)
       THEN /\ gw' = [Emit(gw, SseMessage("timeout", "Connection timeout"))
                         EXCEPT !.pc = "timeout"]
            /\ now' = now
       ELSE IF ~brokerUp
       THEN /\ \E c \in FinallyBlock(gw) : gw' = Ended(c, "ConnectionError")
            /\ now' = now
       ELSE LET k == NextMessage(gw)
            IN  \E d \in (IF k = 0 THEN {PollTimeout} ELSE 0 .. PollTimeout) :
                   /\ now' = now + d
                   /\ gw' = AfterPoll([gw EXCEPT
                               !.message = k,
                               !.next = IF k = 0 THEN Len(events) + 1 ELSE k + 1,
                               !.current_time = now + d])
    /\ UNCHANGED <<issueVars, transitions, logVars, sprintRow, req, served,
                   brokerUp>>

\* await asyncio.sleep(0.1) returns: a tenth of a poll timeout, which may
\* or may not carry the clock to its next value.
Wake ==
    /\ gw.pc = "sleep"
    /\ \E d \in 0 .. PollTimeout : now' = now + d
    /\ gw' = LoopTop(gw)
    /\ UNCHANGED <<issueVars, transitions, logVars, sprintRow, req, served,
                   brokerUp>>

\* The client goes away while the generator is suspended at a yield: the
\* generator is closed there (GeneratorExit).  The yields of lines 69, 79
\* and 88 are outside the try statement, the others inside it.
Disconnect ==
    /\ gw.pc \in {"denied", "connected", "heartbeat", "data", "timeout"}
    /\ \E g \in (IF gw.pc \in {"denied", "connected"} THEN {gw}
                 ELSE FinallyBlock(gw)) :
          gw' = Ended(g, "GeneratorExit")
    /\ UNCHANGED <<issueVars, transitions, logVars, sprintRow, req, served,
                   now, brokerUp>>

\* The request is cancelled while the generator awaits inside the loop
\* (CancelledError at get_message or sleep).
Cancel ==
    /\ gw.pc \in {"loop", "sleep"}
    /\ \E g \in FinallyBlock(gw) : gw' = Ended(g, "CancelledError")
    /\ UNCHANGED <<issueVars, transitions, logVars, sprintRow, req, served,
                   now, brokerUp>>

\* Another client of the broker publishes a payload that is not JSON on
\* the channel of project p, while requests are still to come.
PublishRaw(p) ==
    /\ served < MaxOps
    /\ Cardinality({k \in DOMAIN events : ~ValidJson(events[k])}) < MaxRaw
    /\ events' = Append(events, RawMessage(p))
    /\ UNCHANGED <<issueVars, transitions, activities, sprintRow, req, served,
                   gw, now, brokerUp>>

\* The broker stops answering.
BrokerDown ==
    /\ brokerUp
    /\ gw.pc # "idle"
    /\ brokerUp' = FALSE
    /\ UNCHANGED <<issueVars, transitions, logVars, sprintRow, req, served,
                   gw, now>>

\* ---------------------------------------------------------- specifications

NoRequests == [r \in Reqs |-> Idle]

\* A project with its issues in the first status, nothing configured yet:
\* no workflow transition, no sprint.
WorkflowInit ==
    /\ issueStatus = [i \in Issues |-> "s1"]
    /\ issueSprint = [i \in Issues |-> None]
    /\ transitions = {}
    /\ activities = << >>
    /\ events = << >>
    /\ sprintRow = [s \in Sprints |-> Absent]
    /\ req = NoRequests
    /\ served = 0
    /\ gw = NoConnection
    /\ now = 0
    /\ brokerUp = TRUE

\* The issues the workflow requests are about: one of each project.
WorkflowIssues == {"i1", "i3"}

WorkflowNext ==
    \/ \E r \in Reqs, i \in WorkflowIssues, t \in TransitionIds, u \in Users :
          ReceiveExecuteTransition(r, i, t, u)
    \/ \E r \in Reqs : ExecuteTransition(r)
    \/ \E r \in Reqs, i \in WorkflowIssues, s \in Statuses, u \in Users :
          ReceiveUpdateIssue(r, i, s, Null, u)
    \/ \E r \in Reqs : UpdateIssue(r)
    \/ \E t \in TransitionIds : CreateWorkflowTransition(t)

WorkflowSpec == WorkflowInit /\ [][WorkflowNext]_vars

\* Edits of an issue of each project on a board without workflow
\* transitions: the status sent is any status that exists, the due date is
\* sent or not.
IssueEditNext ==
    \/ \E r \in Reqs, i \in WorkflowIssues, s \in Statuses \cup ScopedStatuses,
          d \in DueDates, u \in Users :
          ReceiveUpdateIssue(r, i, s, d, u)
    \/ \E r \in Reqs : UpdateIssue(r)

IssueEditSpec == WorkflowInit /\ [][IssueEditNext]_vars

\* A Sprint row as create_sprint leaves it, and as a sprint that was started
\* (and completed) with no issues in it has it.
SprintRowIn(status) ==
    [status |-> status,
     initial_story_points |-> IF status = "planned" THEN Null ELSE 0,
     completed_story_points |-> IF status = "completed" THEN 0 ELSE Null,
     start_date |-> 1, end_date |-> 2]

\* Two sprints of project P exist, the sprint of project Q does not yet;
\* the first issue of P is open and in the backlog or in the first sprint,
\* the second is done and in the first sprint.
SprintInit ==
    /\ issueStatus = [i \in Issues |-> IF i = "i2" THEN "s3" ELSE "s1"]
    /\ issueSprint \in [Issues -> {None, "sp1"}]
    /\ issueSprint["i2"] = "sp1"
    /\ issueSprint["i3"] = None
    /\ transitions = {}
    /\ activities = << >>
    /\ events = << >>
    /\ \E a \in {"planned", "active"}, b \in {"planned", "completed"} :
          sprintRow = [s \in Sprints |->
                          CASE s = "sp1" -> SprintRowIn(a)
                            [] s = "sp2" -> SprintRowIn(b)
                            [] OTHER -> Absent]
    /\ req = NoRequests
    /\ served = 0
    /\ gw = NoConnection
    /\ now = 0
    /\ brokerUp = TRUE

SprintActions(overlap) ==
    \/ \E r \in Reqs, s \in Sprints :
          (overlap \/ NoneInFlight) /\ ReceiveStartSprint(r, s)
    \/ \E r \in Reqs : StartSprintCheck(r)
    \/ \E r \in Reqs : StartSprint(r)
    \/ \E r \in Reqs, s \in Sprints, to \in {None, "backlog"} \cup Sprints :
          (overlap \/ NoneInFlight) /\ ReceiveCompleteSprint(r, s, to)
    \/ \E r \in Reqs : CompleteSprint(r)
    \/ \E r \in Reqs, s \in Sprints, d \in UpdateDates :
          (overlap \/ NoneInFlight) /\ ReceiveUpdateSprint(r, s, d[1], d[2])
    \/ \E r \in Reqs : UpdateSprint(r)
    \/ \E r \in Reqs, i \in Issues, s \in {None} \cup Sprints :
          (overlap \/ NoneInFlight) /\ ReceiveUpdateIssueSprint(r, i, s)
    \/ \E r \in Reqs : UpdateIssueSprint(r)
    \/ \E s \in Sprints, d1, d2 \in Dates : CreateSprint(s, d1, d2)

\* Requests may overlap: any handler thread may load while another has
\* loaded and not yet called its service.
SprintNext == SprintActions(TRUE)

SprintSpec == SprintInit /\ [][SprintNext]_vars

\* Requests served one at a time: a request is received only when no other
\* is in flight.
SprintSeqNext == SprintActions(FALSE)

SprintSeqSpec == SprintInit /\ [][SprintSeqNext]_vars

\* The steps of the generator and of a client that keeps reading.
GatewaySteps == Subscribe \/ Resume \/ Poll \/ Wake

\* An event stream next to status edits by a developer of P and a manager
\* of Q, made one after the other, each of which publishes on the channel
\* of its project.
GatewayNext ==
    \/ \E u \in Users, p \in {None} \cup Projects : Connect(u, p)
    \/ Subscribe
    \/ Resume
    \/ Poll
    \/ Wake
    \/ Disconnect
    \/ Cancel
    \/ BrokerDown
    \/ \E r \in Reqs, i \in WorkflowIssues :
          /\ NoneInFlight
          /\ ReceiveUpdateIssue(r, i, "s2", Null,
                                IF i = "i1" THEN "dev" ELSE "mgr")
    \/ \E r \in Reqs : UpdateIssue(r)

GatewaySpec == WorkflowInit /\ [][GatewayNext]_vars

\* The event loop runs the generator and the client reads what it yields.
GatewayLiveSpec == GatewaySpec /\ WF_vars(GatewaySteps)

\* The event stream of a member, for every project of theirs, on a broker
\* that answers throughout and that other clients publish to as well.
RelayNext ==
    \/ \E u \in {"dev", "mgr"} : Connect(u, None)
    \/ Subscribe
    \/ Resume
    \/ Poll
    \/ Wake
    \/ Disconnect
    \/ Cancel
    \/ \E r \in Reqs, i \in WorkflowIssues :
          /\ NoneInFlight
          /\ ReceiveUpdateIssue(r, i, "s2", Null,
                                IF i = "i1" THEN "dev" ELSE "mgr")
    \/ \E r \in Reqs : UpdateIssue(r)
    \/ \E p \in Projects : NoneInFlight /\ PublishRaw(p)

RelaySpec == WorkflowInit /\ [][RelayNext]_vars

\* A board in use: the first sprint of P holds an open issue (3 points) and
\* a done issue (5 points) and is planned or active, the second sprint of P
\* is completed or not created yet; the sprint of Q holds a done issue
\* without story points and is planned or active.
SprintBoardInit ==
    /\ issueStatus = [i \in Issues |-> IF i = "i1" THEN "s1" ELSE "s3"]
    /\ issueSprint = [i \in Issues |-> IF i = "i3" THEN "sp3" ELSE "sp1"]
    /\ transitions = {}
    /\ activities = << >>
    /\ events = << >>
    /\ \E a \in {"planned", "active"}, b \in {"absent", "completed"},
          c \in {"planned", "active"} :
          sprintRow = [s \in Sprints |->
                          CASE s = "sp1" -> SprintRowIn(a)
                            [] s = "sp2" -> IF b = "absent" THEN Absent
                                            ELSE SprintRowIn(b)
                            [] OTHER -> SprintRowIn(c)]
    /\ req = NoRequests
    /\ served = 0
    /\ gw = NoConnection
    /\ now = 0
    /\ brokerUp = TRUE

SprintBoardSpec == SprintBoardInit /\ [][SprintNext]_vars

\* The operations that change which sprint an issue is in, on a board in
\* use; requests may overlap.
MembershipNext ==
    \/ \E r \in Reqs, s \in Sprints, to \in {None, "backlog"} \cup Sprints :
          ReceiveCompleteSprint(r, s, to)
    \/ \E r \in Reqs : CompleteSprint(r)
    \/ \E r \in Reqs, i \in Issues, s \in Sprints :
          ReceiveAddIssueToSprint(r, i, s)
    \/ \E r \in Reqs : AddIssueToSprint(r)
    \/ \E r \in Reqs, i \in Issues, s \in {None} \cup Sprints :
          ReceiveUpdateIssueSprint(r, i, s)
    \/ \E r \in Reqs : UpdateIssueSprint(r)
    \/ \E r \in Reqs, s \in Sprints : ReceiveDeleteSprint(r, s)
    \/ \E r \in Reqs : DeleteSprint(r)

MembershipSpec == SprintBoardInit /\ [][MembershipNext]_vars
\* The sprints of the board the velocity is computed for: project P has a
\* third sprint.
MetricSprints == Sprints \cup {"sp4"}

\* The limits velocity is requested with.
Limits == {1, 2, 3}

\* The Sprint rows of that board: planned, active, or completed on the
\* second or third day with 0, 1 or 2 story points completed.
VelocityRows ==
    {SprintRowIn("planned"), SprintRowIn("active")}
    \cup {[SprintRowIn("completed") EXCEPT !.end_date = e,
                                          !.completed_story_points = c,
                                          !.initial_story_points = 2] :
             e \in {2, 3}, c \in {0, 1, 2}}

VelocityInit ==
    /\ issueStatus = [i \in Issues |-> "s1"]
    /\ issueSprint = [i \in Issues |-> None]
    /\ transitions = {}
    /\ activities = << >>
    /\ events = << >>
    /\ sprintRow \in [MetricSprints -> VelocityRows]
    /\ req = NoRequests
    /\ served = 0
    /\ gw = NoConnection
    /\ now = 0
    /\ brokerUp = TRUE

\* One query in a behaviour: a query changes no row, a second one would
\* see what the first saw.
VelocityNext ==
    \E r \in Reqs, p \in Projects, limit \in Limits :
        served = 0 /\ GetVelocity(r, p, limit)

VelocitySpec == VelocityInit /\ [][VelocityNext]_vars

\* The issues of the sprint the burndown is computed for.
ChartIssues == {"i1", "i2"}

\* The days a burndown is requested on.
Days == {1, 2, 3, 4}

\* One sprint of P, planned (no snapshot), active or completed (a snapshot
\* of 0 or 8 points); the second issue is done and in the sprint, the first
\* is open or done, in the sprint or in the backlog.
BurndownInit ==
    /\ \E a \in {"s1", "s3"} :
          issueStatus = [i \in Issues |-> CASE i = "i1" -> a
                                           [] i = "i2" -> "s3"
                                           [] OTHER -> "s1"]
    /\ \E m \in {None, "sp1"} :
          issueSprint = [i \in Issues |-> CASE i = "i1" -> m
                                           [] i = "i2" -> "sp1"
                                           [] OTHER -> None]
    /\ transitions = {}
    /\ activities = << >>
    /\ events = << >>
    /\ \E status \in {"planned", "active", "completed"}, initial \in {0, 8},
          start_date, end_date \in Dates :
          /\ ValidDates(start_date, end_date)
          /\ sprintRow = [s \in Sprints |->
                IF s = "sp1"
                THEN [SprintRowIn(status) EXCEPT
                         !.start_date = start_date, !.end_date = end_date,
                         !.initial_story_points =
                             IF status = "planned" THEN Null ELSE initial]
                ELSE Absent]
    /\ req = NoRequests
    /\ served = 0
    /\ gw = NoConnection
    /\ now = 0
    /\ brokerUp = TRUE

\* One query in a behaviour, on any day, with any history of the two
\* issues.
BurndownNext ==
    \E r \in Reqs, s \in Sprints, today \in Days,
       done_date \in [ChartIssues -> Dates \cup {Null, Unavailable}],
       updated_at \in [ChartIssues -> Dates] :
       served = 0 /\ GetBurndown(r, s, today, done_date, updated_at)

BurndownSpec == BurndownInit /\ [][BurndownNext]_vars

\* ------------------------------------------------------------ properties

\* A request whose service call has returned or raised.
Done(r, kind) == req[r].pc = "done" /\ req[r].kind = kind

\* C1: of two execute_transition calls on the same issue that both loaded
\* it in status S, each with a transition from S, the one that commits
\* after the other succeeded (it finds the row in the winner's to_status)
\* fails with InvalidState, so the winner's status is not overwritten.
C1_OverlappingTransitionLoserFails ==
    \A r1, r2 \in Reqs :
        LET q1 == req[r1]
            q2 == req[r2]
        IN  (/\ r1 # r2
             /\ Done(r1, "transition")
             /\ Done(r2, "transition")
             /\ q1.issue.id = q2.issue.id
             /\ q1.issue.status = q2.issue.status
             /\ TransitionCatalog[q1.transition].from_status = q1.issue.status
             /\ TransitionCatalog[q2.transition].from_status = q2.issue.status
             /\ q1.res = "ok"
             /\ q2.rowStatus = TransitionCatalog[q1.transition].to_status)
            => q2.res = "InvalidState"

\* C2: execute_transition called with an issue whose status is not the
\* from_status of the transition (the status was changed after the
\* transition was listed), or with a transition of another project, raises
\* InvalidState and leaves the status of every issue row unchanged.
C2_StaleTransitionRejected ==
    \A r \in Reqs :
        (/\ Done(r, "transition")
         /\ \/ req[r].issue.status
                  # TransitionCatalog[req[r].transition].from_status
            \/ req[r].issue.project
                  # TransitionCatalog[req[r].transition].project)
        => /\ req[r].res = "InvalidState"
           /\ req[r].rowAfter = req[r].rowStatus
           /\ ~req[r].othersChanged

\* C2 happens: a transition listed for the issue in its first status was
\* refused with InvalidState after a committed edit moved the issue on.
C2_Witness ==
    \E r \in Reqs :
        /\ Done(r, "transition")
        /\ req[r].res = "InvalidState"
        /\ req[r].issue.project = TransitionCatalog[req[r].transition].project
        /\ TransitionCatalog[req[r].transition].from_status = "s1"
        /\ req[r].issue.status # "s1"
        /\ issueStatus[req[r].issue.id] = req[r].issue.status

\* C3: for a transition with allowed_roles set whose project and
\* from_status are those of the issue, execute_transition raises Forbidden
\* and changes no status when the user's role is not allowed (or the user
\* has no membership), and otherwise succeeds and leaves the issue row in
\* to_status.
C3_RoleGate ==
    \A r \in Reqs :
        LET q == req[r]
            t == TransitionCatalog[q.transition]
        IN  (/\ Done(r, "transition")
             /\ t.allowed_roles # {}
             /\ t.project = q.issue.project
             /\ t.from_status = q.issue.status)
            => IF RoleOf(q.issue.project, q.user) \in t.allowed_roles
               THEN /\ q.res = "ok"
                    /\ q.rowAfter = t.to_status
               ELSE /\ q.res = "Forbidden"
                    /\ q.rowAfter = q.rowStatus
                    /\ ~q.othersChanged

\* C3 happens: a user without membership was refused with Forbidden, and a
\* user with an allowed role executed a role-gated transition.
C3_Witness ==
    /\ \E r \in Reqs :
          /\ Done(r, "transition")
          /\ req[r].res = "Forbidden"
          /\ RoleOf(req[r].issue.project, req[r].user) = None
    /\ \E r \in Reqs :
          /\ Done(r, "transition")
          /\ req[r].res = "ok"
          /\ TransitionCatalog[req[r].transition].allowed_roles # {}
          /\ issueStatus[req[r].issue.id]
                = TransitionCatalog[req[r].transition].to_status

\* C4: can_transition is true for every target status when the project of
\* the issue has no workflow transition; otherwise it is true exactly when
\* a transition of the project from the issue's status to the target
\* exists whose allowed_roles is empty or contains the user's role.
C4_CanTransition ==
    \A i \in Issues, target \in Statuses, u \in Users :
        LET p == IssueProject(i)
            configured == \E t \in transitions : TransitionCatalog[t].project = p
            permitted ==
                \E t \in transitions :
                    /\ TransitionCatalog[t].project = p
                    /\ TransitionCatalog[t].from_status = issueStatus[i]
                    /\ TransitionCatalog[t].to_status = target
                    /\ \/ TransitionCatalog[t].allowed_roles = {}
                       \/ RoleOf(p, u) \in TransitionCatalog[t].allowed_roles
        IN  CanTransition(LoadIssue(i), target, u)
                = (IF configured THEN permitted ELSE TRUE)

\* C4 happens: with a workflow configured in P and none in Q, a status edit
\* in P was refused by can_transition, an edit in Q to any status went
\* through, and a role-gated transition of P is open to one user and
\* closed to another.
C4_Witness ==
    /\ ProjectTransitions("P") # {}
    /\ ProjectTransitions("Q") = {}
    /\ \E r \in Reqs :
          /\ Done(r, "update_issue")
          /\ req[r].res = "TransitionDenied"
          /\ req[r].issue.project = "P"
    /\ \E r \in Reqs :
          /\ Done(r, "update_issue")
          /\ req[r].res = "ok"
          /\ req[r].issue.project = "Q"
          /\ req[r].status_id # req[r].issue.status
    /\ \E i \in Issues, target \in Statuses, u, v \in Users :
          /\ CanTransition(LoadIssue(i), target, u)
          /\ ~CanTransition(LoadIssue(i), target, v)

\* C5: every successful execute_transition appends exactly one activity
\* row, and a status edit by update_issue that changes the status appends
\* exactly one; the row is a status_changed row with the {name, category}
\* of the old and the new status.
C5_TransitionIsAudited ==
    \A r \in Reqs :
        /\ (Done(r, "transition") /\ req[r].res = "ok") => req[r].logged = 1
        /\ (/\ Done(r, "update_issue")
            /\ req[r].res = "ok"
            /\ req[r].status_id # req[r].issue.status) => req[r].logged = 1
        /\ \A k \in DOMAIN activities :
              /\ activities[k].action = "status_changed"
              /\ activities[k].old_value \in {StatusValue(s) : s \in Statuses}
              /\ activities[k].new_value \in {StatusValue(s) : s \in Statuses}


\* C6: no project has two active sprints.
C6_OneActiveSprintPerProject ==
    \A s1, s2 \in Sprints :
        (/\ SprintProject(s1) = SprintProject(s2)
         /\ sprintRow[s1].status = "active"
         /\ sprintRow[s2].status = "active") => s1 = s2

\* C7: start_sprint on a sprint that is not planned raises InvalidState; on
\* a planned sprint while another sprint of the project is active it
\* raises Conflict; when it raises, no Sprint row changes (status and
\* initial_story_points stay as they were).
C7_StartRejected ==
    \A r \in Reqs :
        LET q == req[r]
        IN  Done(r, "start")
            => /\ q.sprint.status # "planned" => q.res = "InvalidState"
               /\ (/\ q.sprint.status = "planned"
                   /\ \E o \in Sprints \ {q.sprint.id} :
                         /\ SprintProject(o) = q.sprint.project
                         /\ q.rows[o].status = "active")
                  => q.res = "Conflict"
               /\ q.res # "ok"
                  => /\ q.res \in {"InvalidState", "Conflict"}
                     /\ q.rowsAfter = q.rows

\* C7 happens: a start of a sprint that is already active was refused with
\* InvalidState, a start of a planned sprint next to an active one with
\* Conflict, and the rows are as they were before each call.
C7_Witness ==
    /\ \E r \in Reqs :
          /\ Done(r, "start")
          /\ req[r].res = "InvalidState"
          /\ req[r].sprint.status = "active"
          /\ req[r].rows = sprintRow
    /\ \E r \in Reqs :
          /\ Done(r, "start")
          /\ req[r].res = "Conflict"
          /\ req[r].sprint.status = "planned"
          /\ req[r].rows[req[r].sprint.id] = sprintRow[req[r].sprint.id]

\* The steps a Sprint row's status may take.
SprintStatusSteps ==
    {<<"absent", "planned">>, <<"planned", "active">>, <<"active", "completed">>}

C9_CompleteToBacklog ==
    \A r \in Reqs :
        LET q == req[r]
        IN  (/\ Done(r, "complete")
             /\ q.res = "ok"
             /\ q.arg \in {None, "backlog"})
            => \A i \in Issues :
                  q.members[i] = q.sprint.id
                     => q.membersAfter[i] =
                           IF StatusCategory(q.statuses[i]) = "done"
                           THEN q.sprint.id ELSE None

\* C9 happens: a sprint holding a done and an open issue was completed to
\* the backlog.
C9_Witness ==
    \E r \in Reqs :
        /\ Done(r, "complete")
        /\ req[r].res = "ok"
        /\ req[r].arg = "backlog"
        /\ \E i, j \in Issues :
              /\ req[r].members[i] = req[r].sprint.id
              /\ req[r].members[j] = req[r].sprint.id
              /\ StatusCategory(req[r].statuses[i]) = "done"
              /\ StatusCategory(req[r].statuses[j]) # "done"
              /\ req[r].membersAfter[i] = req[r].sprint.id
              /\ req[r].membersAfter[j] = None

\* C10: complete_sprint on an active sprint with a target sprint that is
\* completed, or that is the sprint itself, raises Conflict and changes
\* neither a Sprint row nor the sprint of any issue.
C10_CompletedTargetRejected ==
    \A r \in Reqs :
        LET q == req[r]
        IN  (/\ Done(r, "complete")
             /\ q.sprint.status = "active"
             /\ q.arg \in Sprints
             /\ \/ q.arg = q.sprint.id
                \/ q.rows[q.arg].status = "completed")
            => /\ q.res = "Conflict"
               /\ q.rowsAfter = q.rows
               /\ q.membersAfter = q.members

\* C10 happens: an active sprint holding an open issue was asked to move
\* its issues to itself, and to a completed sprint; both calls were refused
\* and the sprint is still active, without completed_story_points.
C10_Witness ==
    \E r1, r2 \in Reqs :
        /\ Done(r1, "complete")
        /\ Done(r2, "complete")
        /\ req[r1].res = "Conflict"
        /\ req[r2].res = "Conflict"
        /\ req[r1].arg = req[r1].sprint.id
        /\ req[r2].arg # req[r2].sprint.id
        /\ req[r2].sprint.id = req[r1].sprint.id
        /\ sprintRow[req[r1].sprint.id].status = "active"
        /\ sprintRow[req[r1].sprint.id].completed_story_points = Null
        /\ \E i \in Issues :
              /\ issueSprint[i] = req[r1].sprint.id
              /\ StatusCategory(issueStatus[i]) # "done"

\* The story points of issue i counted for sprint s under the membership
\* `members`, null points counted as 0; with `done_only`, only when the
\* status of the issue under `statuses` is of the done category.
CountedPoints(members, statuses, s, i, done_only) ==
    IF /\ members[i] = s
       /\ StoryPoints(i) # Null
       /\ (done_only => StatusCategory(statuses[i]) = "done")
    THEN StoryPoints(i) ELSE 0

\* C11: a successful start_sprint leaves the Sprint row active with
\* initial_story_points equal to the sum of the story points (null as 0)
\* of exactly the issues that are in the sprint when it runs; 0 for a
\* sprint without issues.
C11_StartSnapshot ==
    \A r \in Reqs :
        LET q == req[r]
        IN  (Done(r, "start") /\ q.res = "ok")
            => /\ q.rowsAfter[q.sprint.id].status = "active"
               /\ q.rowsAfter[q.sprint.id].initial_story_points
                     = CountedPoints(q.members, q.statuses, q.sprint.id, "i1", FALSE)
                       + CountedPoints(q.members, q.statuses, q.sprint.id, "i2", FALSE)
                       + CountedPoints(q.members, q.statuses, q.sprint.id, "i3", FALSE)
               /\ (\A i \in Issues : q.members[i] # q.sprint.id)
                     => q.rowsAfter[q.sprint.id].initial_story_points = 0

\* C11 happens: a sprint holding issues of 3 and 5 points was started with
\* a snapshot of 8, and a sprint whose only issue has no story points with
\* a snapshot of 0.
C11_Witness ==
    /\ \E r \in Reqs :
          /\ Done(r, "start")
          /\ req[r].res = "ok"
          /\ req[r].members["i1"] = req[r].sprint.id
          /\ req[r].members["i2"] = req[r].sprint.id
          /\ sprintRow[req[r].sprint.id].status = "active"
          /\ sprintRow[req[r].sprint.id].initial_story_points = 8
    /\ \E r \in Reqs :
          /\ Done(r, "start")
          /\ req[r].res = "ok"
          /\ req[r].members["i3"] = req[r].sprint.id
          /\ sprintRow[req[r].sprint.id].initial_story_points = 0

\* C12: a successful complete_sprint leaves the Sprint row completed with
\* completed_story_points equal to the sum of the story points of the
\* issues that were in the sprint with a status of the done category when
\* it ran, before any issue was moved out.
C12_CompleteSnapshot ==
    \A r \in Reqs :
        LET q == req[r]
        IN  (Done(r, "complete") /\ q.res = "ok")
            => /\ q.rowsAfter[q.sprint.id].status = "completed"
               /\ q.rowsAfter[q.sprint.id].completed_story_points
                     = CountedPoints(q.members, q.statuses, q.sprint.id, "i1", TRUE)
                       + CountedPoints(q.members, q.statuses, q.sprint.id, "i2", TRUE)
                       + CountedPoints(q.members, q.statuses, q.sprint.id, "i3", TRUE)

\* C12 happens: a sprint holding an open issue of 3 points and a done issue
\* of 5 points was completed with 5 completed points, and the open issue
\* was moved out.
C12_Witness ==
    \E r \in Reqs :
        /\ Done(r, "complete")
        /\ req[r].res = "ok"
        /\ req[r].members["i1"] = req[r].sprint.id
        /\ req[r].members["i2"] = req[r].sprint.id
        /\ req[r].membersAfter["i1"] # req[r].sprint.id
        /\ sprintRow[req[r].sprint.id].status = "completed"
        /\ sprintRow[req[r].sprint.id].completed_story_points = 5

\* C13: update_issue_sprint raises InvalidState when the target sprint is
\* completed, Conflict when the target is a sprint (not completed) of
\* another project, and then leaves the sprint of every issue row as it
\* was; with no target it succeeds and the issue row has no sprint.
C13_SetIssueSprint ==
    \A r \in Reqs :
        LET q == req[r]
        IN  Done(r, "set_sprint")
            => /\ q.arg = None
                    => (q.res = "ok" /\ q.membersAfter[q.issue.id] = None)
               /\ (q.arg # None /\ q.rows[q.arg].status = "completed")
                    => (q.res = "InvalidState" /\ q.membersAfter = q.members)
               /\ (/\ q.arg # None
                   /\ q.rows[q.arg].status \in {"planned", "active"}
                   /\ SprintProject(q.arg) # q.issue.project)
                    => (q.res = "Conflict" /\ q.membersAfter = q.members)

\* C13 happens: an issue of P in a sprint was refused the completed sprint
\* of P and the sprint of Q, and is still in its sprint.
C13_Witness ==
    \E r1, r2 \in Reqs :
        /\ Done(r1, "set_sprint")
        /\ Done(r2, "set_sprint")
        /\ req[r1].issue.id = req[r2].issue.id
        /\ req[r1].res = "InvalidState"
        /\ req[r2].res = "Conflict"
        /\ SprintProject(req[r1].arg) = req[r1].issue.project
        /\ issueSprint[req[r1].issue.id] = req[r1].issue.sprint
        /\ req[r1].issue.sprint # None

\* C14: every successful execute_transition on an issue of project P has
\* published, on the channel of P, an issue.moved event carrying the names
\* of the old and the new status (which a gateway subscribed to P then
\* relays).
C14_TransitionPublishesMoved ==
    \A r \in Reqs :
        LET q == req[r]
        IN  (Done(r, "transition") /\ q.res = "ok")
            => \E k \in DOMAIN events :
                  /\ events[k].type = "issue.moved"
                  /\ events[k].project = q.issue.project
                  /\ events[k].data.key = q.issue.id
                  /\ events[k].data.from_status = StatusName(q.issue.status)
                  /\ events[k].data.to_status
                        = StatusName(TransitionCatalog[q.transition].to_status)

\* The generator has subscribed: it made the connected message.
HasSubscribed == Len(gw.out) > 0 /\ gw.out[1].type = "connected"

\* The generator released what it held: no channel subscribed, the pubsub
\* handle and the client closed.
Released == gw.subscribed = {} /\ gw.pubsub = "closed" /\ gw.redis = "closed"

\* C15: every event a connection emits was published for a project its
\* user is a member of, and for the requested project when one was
\* requested; a request for a project the user is no member of emits one
\* error message and subscribes to nothing.
C15_OnlyMemberChannels ==
    /\ \A k \in DOMAIN gw.out :
          gw.out[k].project # None
             => /\ RoleOf(gw.out[k].project, gw.user) # None
                /\ gw.project_id # None => gw.out[k].project = gw.project_id
    /\ (/\ gw.pc # "idle"
        /\ gw.project_id # None
        /\ RoleOf(gw.project_id, gw.user) = None)
          => /\ gw.subscribed = {}
             /\ Len(gw.out) = 1
             /\ gw.out[1].type = "error"

\* C15 happens: a connection of the developer of P relayed an event of P
\* and has read past an event of Q published after it.
C15_Witness ==
    /\ gw.user = "dev"
    /\ gw.project_id = None
    /\ \E j, k \in DOMAIN events :
          /\ j < k
          /\ events[j].project = "P"
          /\ events[k].project = "Q"
          /\ gw.next > k
          /\ \E m \in DOMAIN gw.out :
                gw.out[m].type = events[j].type /\ gw.out[m].project = "P"
    /\ \A m \in DOMAIN gw.out : gw.out[m].project # "Q"

\* C16: a connection that subscribed and has ended, in whatever way, has
\* unsubscribed and closed its pubsub handle and its client.
C16_NoLeakedSubscription ==
    (gw.pc = "closed" /\ HasSubscribed) => Released

\* C17: when the broker does not answer while the generator subscribes or
\* waits for a message, the step that ends the generator emits a message
\* of type error as the last one, releases what the generator held, and
\* returns: the error does not leave the generator.
C17_BrokerErrorIsTerminalMessage ==
    [][(/\ ~brokerUp
        /\ gw.pc \in {"subscribing", "loop"}
        /\ gw'.pc = "closed"
        /\ gw'.exit # "CancelledError")
          => /\ gw'.exit = "return"
             /\ Len(gw'.out) = Len(gw.out) + 1
             /\ gw'.out[Len(gw'.out)].type = "error"
             /\ gw'.subscribed = {}
             /\ gw'.pubsub = "closed"
             /\ gw'.redis = "closed"]_vars

\* C18: a heartbeat is emitted at most HeartbeatInterval plus one pass of
\* the loop (a poll and a sleep) after the previous one (the first: after
\* the connection was made), and an open connection is never longer than
\* that without one, whether events are relayed or not.
C18_HeartbeatGap ==
    /\ gw.pc = "heartbeat"
          => gw.current_time - gw.last_heartbeat
                <= HeartbeatInterval + 2 * PollTimeout
    /\ gw.pc \in {"loop", "sleep", "data"}
          => now - gw.last_heartbeat <= HeartbeatInterval + 2 * PollTimeout

\* C18 happens: two heartbeats were emitted with a relayed event between
\* them.
C18_Witness ==
    \E i, j, k \in DOMAIN gw.out :
        /\ i < j
        /\ j < k
        /\ gw.out[i].type = "heartbeat"
        /\ gw.out[j].project # None
        /\ gw.out[k].type = "heartbeat"

\* C19: every connection ends.  A connection in the loop is never older
\* than MaxConnectionTime plus one pass of the loop; a timeout message is
\* emitted at most once, only by a connection older than
\* MaxConnectionTime, and is the last message.
C19_ConnectionTerminates ==
    /\ [](/\ gw.pc \in {"loop", "sleep", "heartbeat", "data"}
              => now - gw.start_time <= MaxConnectionTime + 2 * PollTimeout
          /\ \A k \in DOMAIN gw.out :
                gw.out[k].type = "timeout"
                   => /\ k = Len(gw.out)
                      /\ now - gw.start_time > MaxConnectionTime)
    /\ (gw.pc # "idle") ~> (gw.pc = "closed")

\* C19 happens: a connection that emitted a heartbeat was ended by the
\* server with a timeout message and released what it held.
C19_Witness ==
    /\ gw.pc = "closed"
    /\ gw.exit = "return"
    /\ Released
    /\ gw.out[Len(gw.out)].type = "timeout"
    /\ \E k \in DOMAIN gw.out : gw.out[k].type = "heartbeat"

\* C20: every step that changes the status or the sprint of an issue row
\* appends an activity row for that issue.
C20_AuditedFieldsLogged ==
    [][\A i \in Issues :
          (issueStatus'[i] # issueStatus[i] \/ issueSprint'[i] # issueSprint[i])
             => \E k \in DOMAIN activities' :
                   /\ k > Len(activities)
                   /\ activities'[k].issue = i]_vars

\* C21: the status of every issue is a status its project can see: a
\* global status (Status.project is null) or a status of that project.
C21_StatusVisibleToProject ==
    \A i \in Issues :
        StatusProject(issueStatus[i]) \in {None, IssueProject(i)}

\* C22: every start_sprint or complete_sprint call that succeeded has
\* published a sprint.updated event on the channel of the sprint's
\* project.
C22_SprintChangePublished ==
    \A r \in Reqs :
        ((Done(r, "start") \/ Done(r, "complete")) /\ req[r].res = "ok")
        => \E k \in DOMAIN events :
              /\ events[k].type = "sprint.updated"
              /\ events[k].project = req[r].sprint.project

\* C23: the ideal line of every burndown starts on start_date with
\* initial_story_points (the live total of the sprint's issues when the
\* sprint was never started), and its point for end_date is 0.
C23_IdealLineEndsAtZero ==
    \A r \in Reqs :
        Done(r, "burndown")
        => LET sprint == req[r].sprint
               ideal == req[r].out.ideal
           IN  /\ ideal[1].date = sprint.start_date
               /\ ideal[1].value
                     = 10 * (IF sprint.initial_story_points # Null
                             THEN sprint.initial_story_points
                             ELSE CalculateStoryPoints(sprint.id))
               /\ \E k \in DOMAIN ideal : ideal[k].date = sprint.end_date
               /\ \A k \in DOMAIN ideal :
                     ideal[k].date = sprint.end_date => ideal[k].value = 0

\* C24: a burndown request does not fail, and an issue of the sprint with
\* story points that is done now and has no historical record with a done
\* status counts as completed on the day of its updated_at: from that day
\* on, when the chart has it, the actual line is at most the initial
\* points less the points of the issue.
C24_NoHistoryFallsBackToUpdatedAt ==
    \A r \in Reqs :
        Done(r, "burndown")
        => LET q == req[r]
               actual == q.out.actual
           IN  /\ q.res = "ok"
               /\ \A i \in ChartIssues \cap SprintIssues(q.sprint.id) :
                     (/\ StoryPoints(i) > 0
                      /\ StatusCategory(issueStatus[i]) = "done"
                      /\ q.done_date[i] \in {Null, Unavailable})
                     => \A k \in DOMAIN actual :
                           actual[k].date >= q.updated_at[i]
                              /\ (\E j \in DOMAIN actual :
                                     actual[j].date = q.updated_at[i])
                           => actual[k].value
                                 <= (IF q.out.initial_story_points > StoryPoints(i)
                                     THEN q.out.initial_story_points - StoryPoints(i)
                                     ELSE 0)

\* What C25 says of the sprints listed: completed sprints of the project,
\* each once, as many as the limit allows, none left out that ends later
\* than one listed, the oldest first, each with its completed story
\* points; and nothing, with an average of 0, when there is none.
VelocityListing(q) ==
    LET listed == q.out.sprints
        ids == {listed[k].id : k \in DOMAIN listed}
        completed == CompletedSprints(q.project)
    IN  /\ ids \subseteq completed
        /\ Cardinality(ids) = Len(listed)
        /\ q.out.total_sprints = Len(listed)
        /\ Len(listed) = IF q.limit < Cardinality(completed) THEN q.limit
                         ELSE Cardinality(completed)
        /\ \A s \in completed \ ids, k \in DOMAIN listed :
              sprintRow[s].end_date <= listed[k].end_date
        /\ \A j, k \in DOMAIN listed :
              j < k => listed[j].end_date <= listed[k].end_date
        /\ \A k \in DOMAIN listed :
              /\ listed[k].end_date = sprintRow[listed[k].id].end_date
              /\ listed[k].completed_story_points
                    = OrZero(sprintRow[listed[k].id].completed_story_points)
        /\ completed = {} => (listed = << >> /\ q.out.average_velocity = 0)

C26_SprintOfOwnProject ==
    \A i \in Issues :
        issueSprint[i] # None => SprintProject(issueSprint[i]) = IssueProject(i)

\* C27: no step adds an issue to a sprint whose status is completed.
C27_CompletedSprintNeverGrows ==
    [][\A s \in Sprints :
          sprintRow[s].status = "completed"
             => {i \in Issues : issueSprint'[i] = s}
                   \subseteq {i \in Issues : issueSprint[i] = s}]_vars

\* C28: an update_issue call whose transaction was rolled back (the service
\* raised) has published no event.
C28_NoEventWithoutCommit ==
    \A r \in Reqs :
        (/\ Done(r, "update_issue")
         /\ req[r].res \notin {"ok", "TransitionDenied"})
        => req[r].published = 0

\* C30: for every issue, user and existing transition T, T is listed by
\* get_available_transitions exactly when execute_transition on the issue
\* as it is now would succeed, and can_transition to the to_status of every
\* listed T is true.
C30_WorkflowOperationsAgree ==
    \A i \in Issues, u \in Users, t \in transitions :
        LET issue == LoadIssue(i)
            listed == t \in GetAvailableTransitions(issue, u)
        IN  /\ listed <=> ExecuteTransitionOutcome(issue, t, u) = "ok"
            /\ listed => CanTransition(issue, TransitionCatalog[t].to_status, u)

\* C30 happens: after an executed transition moved an issue of P to the
\* second status, the transition back is listed for the manager and not
\* for the developer, and a transition of Q or from another status is
\* listed for neither.
C30_Witness ==
    /\ \E r \in Reqs :
          /\ Done(r, "transition")
          /\ req[r].res = "ok"
          /\ req[r].issue.id = "i1"
    /\ issueStatus["i1"] = "s2"
    /\ "t3" \in GetAvailableTransitions(LoadIssue("i1"), "mgr")
    /\ "t3" \notin GetAvailableTransitions(LoadIssue("i1"), "dev")
    /\ "t1" \in transitions
    /\ GetAvailableTransitions(LoadIssue("i1"), "dev") = {}

\* A step that takes a payload that is not JSON from the broker, at
\* get_message or after the heartbeat that came first, relays nothing and
\* leaves the generator in its loop.
SkipsRaw ==
    /\ (/\ gw.pc = "loop"
        /\ NextMessage(gw) # 0
        /\ gw'.next # gw.next
        /\ gw'.next = NextMessage(gw) + 1
        /\ ~ValidJson(events[NextMessage(gw)]))
          => /\ gw'.pc \in {"loop", "heartbeat"}
             /\ \/ gw'.out = gw.out
                \/ gw'.out = Append(gw.out, SseMessage("heartbeat", ""))
    /\ (/\ gw.pc = "heartbeat"
        /\ gw.message # 0
        /\ ~ValidJson(events[gw.message])
        /\ gw' # gw
        /\ gw'.pc # "closed")
          => /\ gw'.pc = "loop"
             /\ gw'.out = gw.out

====
